---- MODULE Spec2Model ----
(***************************************************************************)
(* The portfolio site's client-side scripts.                                *)
(*                                                                         *)
(* The particle system (particles.js): the exported initParticles(), the   *)
(* closure built by createParticleSystem(canvas), its event listeners, the *)
(* animation loop, the per-frame physics and the render.                   *)
(*                                                                         *)
(* The page controls: the theme toggle (theme.js), the language switch     *)
(* with its translation loading (i18n), the mobile navigation (utils).     *)
(*                                                                         *)
(* The home page (home.js): the typing animation of the hero section, and  *)
(* debounce() (utils), on a clock in milliseconds.                         *)
(*                                                                         *)
(* Numbers.  The code works on IEEE doubles; the model works in fixed      *)
(* point with 100 units per CSS pixel, so lengths, positions and           *)
(* velocities are integers in hundredths of a pixel (Px converts), and the *)
(* dimensionless factors 0.5 and 0.99 are kept in hundredths as well.  A   *)
(* product or quotient that is not a whole number of units is rounded to   *)
(* the nearest unit (Round).  Math.random() is a draw k / RandDen with k   *)
(* in 0 .. RandDen - 1, which keeps its range [0, 1).                      *)
(***************************************************************************)
EXTENDS Integers, Sequences, FiniteSets, TLC

(***************************************************************************)
(* Bounds of the model.                                                    *)
(***************************************************************************)
RandDen == 4            \* resolution of one Math.random() draw
MaxPasses == 3          \* Physics Step + Render passes in the page model
MaxResizes == 1         \* resize events handled by the debounced listener
MaxDeepPasses == 40     \* passes in the long-run physics model
MaxDeepPointerEvents == 1   \* pointer events in the long-run physics model
MaxStepPasses == 2      \* frame callbacks in the single-particle model
MaxLangCalls == 3       \* switchLang calls, initI18n's own included
MaxTypingStarts == 3    \* calls of startTypingAnimation()
MaxCharIndex == 36      \* charIndex of the typing animation, above every phrase length
MaxDebounceCalls == 3   \* calls of a debounced function
MaxClock == 7           \* milliseconds on the clock of the debounce model

(***************************************************************************)
(* Program constants (particles.js), lengths in hundredths of a pixel.     *)
(***************************************************************************)
MAX_PARTICLES == 60
PARTICLE_SPEED == 30             \* 0.3 px per frame
MOUSE_INFLUENCE_RADIUS == 15000  \* 150 px
MOUSE_REPEL_STRENGTH == 2        \* 0.02 px per frame
VELOCITY_CENTER == 50            \* 0.5, in hundredths
PIXELS_PER_PARTICLE == 15000     \* px * px, not scaled
\* A sentinel one pixel outside the corner of the viewport
SentinelNearCorner == 0 - 1

MOUSE_OFFSCREEN == -1000         \* px, as assigned to mouseX / mouseY
VELOCITY_DAMPING == 99           \* 0.99, in hundredths
RESIZE_DEBOUNCE_MS == 200        \* ms
PARTICLE_RADIUS_BASE == 100      \* 1 px
PARTICLE_RADIUS_RANGE == 200     \* 2 px
SPEED_LIMIT_FACTOR == 2
CONNECTION_DISTANCE == 12000     \* 120 px
LINE_OPACITY_FACTOR == 50        \* 0.5, in hundredths

Px(n) == n * 100

\* The viewports (window.innerWidth, window.innerHeight) the environment shows,
\* in px: 0, 2 and (capped) 60 particles.
Viewports == { <<100, 100>>, <<200, 150>>, <<1600, 1200>> }

\* clientX / clientY of the mousemove events the environment delivers, in px.
PointerPositions == { <<100, 75>> }

(***************************************************************************)
(* State.                                                                  *)
(*   The environment: the media query, the DOM, the window, the document.  *)
(*   The page: whether the exported initParticles() has run.               *)
(*   The closure of createParticleSystem: particles, mouseX, mouseY,       *)
(*   animationId (0 is null), isVisible, and the size resize() gave the    *)
(*   canvas.  debounce's closure: timerId (0 is null).                     *)
(*   The browser: the animation-frame callbacks and the timers that are    *)
(*   scheduled and not yet run or cancelled, and the next handle of each.  *)
(*   History: counts of what has run, and the last event handled.          *)
(***************************************************************************)
VARIABLES prefersReducedMotion, canvasPresent, ctxAvailable,
          innerWidth, innerHeight, hidden,
          loaded, ctxRequested, created,
          particles, mouseX, mouseY, animationId, isVisible, canvasW, canvasH,
          timerId,
          rafPending, nextRaf, timerPending, nextTimer,
          physicsSteps, renders, framesFired, loopStarts, pointerEvents, lastOp

\* The page controls.
\*   Theme: the data-theme attribute of <html> ("none" is absent), the stored
\*   preference, the OS colour scheme, and how far initTheme() got.
\*   localStorage: whether getItem and setItem / removeItem work or throw.
\*   Mobile navigation: whether the toggle and the link list exist, whether
\*   initMobileNav() has bound its listeners, aria-expanded, the open class.
\*   Language: currentLang, the lang attribute of <html>, the ?lang= parameter,
\*   the stored language, navigator.language, the in-memory translationCache
\*   (the languages it holds), the localStorage cache entries, the switchLang
\*   calls waiting for a fetch, the fetches started per file, the
\*   translations last applied, the toggle's label, and how far initI18n() got.
VARIABLES dataTheme, storedTheme, prefersDark, themeReady,
          storageReads, storageWrites,
          navPresent, navReady, ariaExpanded, linksOpen,
          currentLang, htmlLang, urlLang, storedLang, browserLang,
          translationCache, lsCache, pendingCalls, nextCall,
          fetchCount, fetchFailed, applied, toggleLabel, i18nReady

\* The home page.
\*   Typing animation: whether #hero-typing exists, currentPhrases,
\*   typingTimeoutId (0 is null), the setTimeout(type, delay) calls not yet run
\*   or cleared, each with the variables its closure holds (phrases,
\*   phraseIndex, charIndex, isDeleting) and the call of startTypingAnimation()
\*   it belongs to, the element's textContent, the number of calls of
\*   startTypingAnimation() so far, the call whose code wrote textContent last,
\*   and whether init() has reached its last statement.
\*   debounce: the time, the delayMs it was built with, what each pending
\*   timer is due to do, and the history of the calls of the debounced
\*   function and of fn.
VARIABLES typingElPresent, currentPhrases, typingTimeoutId, typingTimers,
          typingText, typingStarts, typingWriter, homeReady,
          clock, delayMs, timerInfo, fnLog, callLog

typingVars == <<typingElPresent, currentPhrases, typingTimeoutId, typingTimers,
                typingText, typingStarts, typingWriter, homeReady>>

debounceVars == <<clock, delayMs, timerInfo, fnLog, callLog>>

homeVars == <<typingVars, debounceVars>>

storageVars == <<storageReads, storageWrites>>

themeVars == <<dataTheme, storedTheme, prefersDark, themeReady>>

navVars == <<navPresent, navReady, ariaExpanded, linksOpen>>

langVars == <<currentLang, htmlLang, urlLang, storedLang, browserLang,
              translationCache, lsCache, pendingCalls, nextCall,
              fetchCount, fetchFailed, applied, toggleLabel, i18nReady>>

controlVars == <<storageVars, themeVars, navVars, langVars, homeVars>>

envVars == <<prefersReducedMotion, canvasPresent, ctxAvailable, innerWidth, innerHeight, hidden>>

loopVars == <<particles, animationId, isVisible, rafPending, nextRaf,
              physicsSteps, renders, loopStarts>>

vars == <<prefersReducedMotion, canvasPresent, ctxAvailable, innerWidth, innerHeight, hidden,
          loaded, ctxRequested, created,
          particles, mouseX, mouseY, animationId, isVisible, canvasW, canvasH,
          timerId, rafPending, nextRaf, timerPending, nextTimer,
          physicsSteps, renders, framesFired, loopStarts, pointerEvents, lastOp,
          controlVars>>

\* Everything of the particle system, its environment and its history
particleVars == <<prefersReducedMotion, canvasPresent, ctxAvailable, innerWidth, innerHeight,
                  hidden, loaded, ctxRequested, created,
                  particles, mouseX, mouseY, animationId, isVisible, canvasW, canvasH,
                  timerId, rafPending, nextRaf, timerPending, nextTimer,
                  physicsSteps, renders, framesFired, loopStarts, pointerEvents>>

(***************************************************************************)
(* Arithmetic helpers.                                                     *)
(***************************************************************************)
Abs(a) == IF a < 0 THEN -a ELSE a

Min(a, b) == IF a < b THEN a ELSE b

Max(a, b) == IF a > b THEN a ELSE b

\* a / b (b > 0) rounded to the nearest integer, halves away from zero.
Round(a, b) == IF a >= 0 THEN (2 * a + b) \div (2 * b) ELSE -((b - 2 * a) \div (2 * b))

(***************************************************************************)
(* The random source.  A batch of particles consumes one stream; draw n of *)
(* stream seed is Draw(seed, n) / RandDen.                                 *)
(***************************************************************************)
Draw(seed, n) == ((seed + 1) * (n + 1) + (n \div RandDen) + (n \div 7)) % RandDen

(***************************************************************************)
(* createParticle(): the i-th particle (i >= 0) of a batch.                *)
(***************************************************************************)
createParticle(seed, i, w, h) ==
    [ x      |-> Round(Draw(seed, 5 * i) * Px(w), RandDen),
      y      |-> Round(Draw(seed, 5 * i + 1) * Px(h), RandDen),
      vx     |-> Round((100 * Draw(seed, 5 * i + 2) - VELOCITY_CENTER * RandDen) * PARTICLE_SPEED,
                       100 * RandDen),
      vy     |-> Round((100 * Draw(seed, 5 * i + 3) - VELOCITY_CENTER * RandDen) * PARTICLE_SPEED,
                       100 * RandDen),
      radius |-> Round(Draw(seed, 5 * i + 4) * PARTICLE_RADIUS_RANGE, RandDen)
                     + PARTICLE_RADIUS_BASE ]

\* The count without its cap
ParticleCountUncapped(w, h) == (w * h) \div PIXELS_PER_PARTICLE

\* const count = Math.min(MAX_PARTICLES, Math.floor(w * h / PIXELS_PER_PARTICLE))
ParticleCount(w, h) == Min(MAX_PARTICLES, (w * h) \div PIXELS_PER_PARTICLE)

\* initParticles() that refills the old array, keeping the particles it holds
NewParticlesKeepingOld(seed, w, h) ==
    [ i \in 1 .. ParticleCount(w, h) |->
        IF i <= Len(particles) THEN particles[i] ELSE createParticle(seed, i - 1, w, h) ]

\* initParticles() of the closure: Array.from({ length: count }, createParticle)
NewParticles(seed, w, h) ==
    [ i \in 1 .. ParticleCount(w, h) |-> createParticle(seed, i - 1, w, h) ]

(***************************************************************************)
(* updateParticles(), the body of its forEach for one particle.            *)
(***************************************************************************)
SpeedLimit == PARTICLE_SPEED * SPEED_LIMIT_FACTOR

\* The clamp without its lower bound
ClampSpeedAbove(v) == Min(SpeedLimit, v)

\* Math.max(-speedLimit, Math.min(speedLimit, v))
ClampSpeed(v) == Max(-SpeedLimit, Min(SpeedLimit, v))

\* v *= VELOCITY_DAMPING
Damp(v) == Round(v * VELOCITY_DAMPING, 100)

\* dist = Math.sqrt(dx * dx + dy * dy) is kept as its square, which is exact.
DistSq(dx, dy) == dx * dx + dy * dy

\* The test of the radius alone, a particle on the pointer included
RepelledIncludingZero(dx, dy) ==
    /\ Abs(dx) < MOUSE_INFLUENCE_RADIUS
    /\ Abs(dy) < MOUSE_INFLUENCE_RADIUS
    /\ DistSq(dx, dy) < MOUSE_INFLUENCE_RADIUS * MOUSE_INFLUENCE_RADIUS

\* dist < MOUSE_INFLUENCE_RADIUS && dist > 0.  The 32-bit squares are taken only
\* where both legs are below the radius; elsewhere dist is at least the radius.
Repelled(dx, dy) ==
    /\ Abs(dx) < MOUSE_INFLUENCE_RADIUS
    /\ Abs(dy) < MOUSE_INFLUENCE_RADIUS
    /\ DistSq(dx, dy) < MOUSE_INFLUENCE_RADIUS * MOUSE_INFLUENCE_RADIUS
    /\ DistSq(dx, dy) > 0

\* (a / dist) * MOUSE_REPEL_STRENGTH for a leg a >= 0 of a distance dist > 0
\* with dist * dist = n, rounded to the nearest unit: the largest m with
\* m - 1/2 <= a * MOUSE_REPEL_STRENGTH / dist, that is with
\* (2m - 1)^2 * n <= 4 * MOUSE_REPEL_STRENGTH^2 * a^2.
ImpulseSize(a, n) ==
    LET k  == 4 * MOUSE_REPEL_STRENGTH * MOUSE_REPEL_STRENGTH
        ok == { m \in 0 .. MOUSE_REPEL_STRENGTH :
                  m = 0 \/ ((2 * m - 1) * (2 * m - 1) * n + k - 1) \div k <= a * a }
    IN  CHOOSE m \in ok : \A j \in ok : j <= m

\* The impulse with its sign turned: the pointer attracts
ImpulseTowardsPointer(d, dx, dy) ==
    IF Repelled(dx, dy)
    THEN (IF d < 0 THEN 1 ELSE -1) * ImpulseSize(Abs(d), DistSq(dx, dy))
    ELSE 0

\* (d / dist) * MOUSE_REPEL_STRENGTH, or nothing when the pointer has no influence
Impulse(d, dx, dy) ==
    IF Repelled(dx, dy)
    THEN (IF d < 0 THEN -1 ELSE 1) * ImpulseSize(Abs(d), DistSq(dx, dy))
    ELSE 0

\* The wrap without its test of the far edge
WrapNearEdgeOnly(c, extent) == IF c < 0 THEN extent ELSE c

\* if (c < 0) { c = extent; }  if (c > extent) { c = 0; }
Wrap(c, extent) ==
    LET c1 == IF c < 0 THEN extent ELSE c
    IN  IF c1 > extent THEN 0 ELSE c1

\* The body with a wrap that also turns the velocity of the wrapped axis round
IntegrateBouncing(p, vx1, vy1, width, height) ==
    [ x      |-> Wrap(p.x + vx1, width),
      y      |-> Wrap(p.y + vy1, height),
      vx     |-> IF Wrap(p.x + vx1, width) = p.x + vx1
                 THEN Damp(ClampSpeed(vx1)) ELSE -Damp(ClampSpeed(vx1)),
      vy     |-> IF Wrap(p.y + vy1, height) = p.y + vy1
                 THEN Damp(ClampSpeed(vy1)) ELSE -Damp(ClampSpeed(vy1)),
      radius |-> p.radius ]

\* The body with the clamp moved before the integration: the position
\* advances by the clamped velocity
IntegrateClampFirst(p, vx1, vy1, width, height) ==
    [ x      |-> Wrap(p.x + ClampSpeed(vx1), width),
      y      |-> Wrap(p.y + ClampSpeed(vy1), height),
      vx     |-> Damp(ClampSpeed(vx1)),
      vy     |-> Damp(ClampSpeed(vy1)),
      radius |-> p.radius ]

\* The rest of the body, once the velocity (vx1, vy1) after the impulse is
\* known: p.x += p.vx, the clamp, the damping, the wrap.
Integrate(p, vx1, vy1, width, height) ==
    [ x      |-> Wrap(p.x + vx1, width),
      y      |-> Wrap(p.y + vy1, height),
      vx     |-> Damp(ClampSpeed(vx1)),
      vy     |-> Damp(ClampSpeed(vy1)),
      radius |-> p.radius ]

UpdateParticle(p, mx, my, width, height) ==
    LET dx == p.x - mx
        dy == p.y - my
    IN  CHOOSE q \in { Integrate(p, vx1, vy1, width, height) :
                          vx1 \in { p.vx + Impulse(dx, dx, dy) },
                          vy1 \in { p.vy + Impulse(dy, dx, dy) } } : TRUE

\* updateParticles(): every particle, with the viewport and pointer of this frame
UpdateParticles(ps, mx, my, w, h) ==
    [ i \in 1 .. Len(ps) |-> UpdateParticle(ps[i], Px(mx), Px(my), Px(w), Px(h)) ]

(***************************************************************************)
(* draw(): what one Render pass does with the particle array ps.  The      *)
(* result lists the pairs (i, j) the nested loops examine, in their order, *)
(* and the lines stroked, each with the opacity of its strokeStyle.        *)
(***************************************************************************)
\* dist < CONNECTION_DISTANCE for the particles a and b, on 32-bit squares
Connected(a, b) ==
    /\ Abs(a.x - b.x) < CONNECTION_DISTANCE
    /\ Abs(a.y - b.y) < CONNECTION_DISTANCE
    /\ DistSq(a.x - b.x, a.y - b.y) < CONNECTION_DISTANCE * CONNECTION_DISTANCE

\* The largest dist at which the opacity, rounded to hundredths, is still m:
\* m - 1/2 <= LINE_OPACITY_FACTOR * (1 - dist / CONNECTION_DISTANCE)
OpacityReach(m) ==
    (CONNECTION_DISTANCE * (2 * LINE_OPACITY_FACTOR + 1 - 2 * m)) \div (2 * LINE_OPACITY_FACTOR)

\* (1 - dist / CONNECTION_DISTANCE) * LINE_OPACITY_FACTOR, in hundredths, for a
\* dist below CONNECTION_DISTANCE with dist * dist = n
LineOpacity(n) ==
    Cardinality({ m \in 1 .. LINE_OPACITY_FACTOR : n <= OpacityReach(m) * OpacityReach(m) })

\* One turn of the inner loop: the pair is examined, and stroked if connected
ExaminePair(ps, i, j, acc) ==
    [ examined |-> Append(acc.examined, <<i, j>>),
      lines    |-> IF Connected(ps[i], ps[j])
                   THEN Append(acc.lines,
                               [ from    |-> i,
                                 to      |-> j,
                                 opacity |-> LineOpacity(DistSq(ps[i].x - ps[j].x,
                                                                ps[i].y - ps[j].y)) ])
                   ELSE acc.lines ]

RECURSIVE InnerLoop(_, _, _, _)
\* for (let j = ...; j < particles.length; j++), indices from 1
InnerLoop(ps, i, j, acc) ==
    IF j > Len(ps) THEN acc ELSE InnerLoop(ps, i, j + 1, ExaminePair(ps, i, j, acc))

RECURSIVE OuterLoopFromFirst(_, _, _)
\* The outer loop with an inner loop that starts at the first particle
OuterLoopFromFirst(ps, i, acc) ==
    IF i > Len(ps) THEN acc ELSE OuterLoopFromFirst(ps, i + 1, InnerLoop(ps, i, 1, acc))

RECURSIVE OuterLoop(_, _, _)
\* for (let i = 0; i < particles.length; i++) { for (let j = i + 1; ...) }
OuterLoop(ps, i, acc) ==
    IF i > Len(ps) THEN acc ELSE OuterLoop(ps, i + 1, InnerLoop(ps, i, i + 1, acc))

\* draw() that takes every ordered pair, a particle with itself included
drawEveryOrderedPair(ps) == OuterLoopFromFirst(ps, 1, [ examined |-> <<>>, lines |-> <<>> ])

\* draw(): the lines between particles; it reads ps and assigns nothing of it
draw(ps) == OuterLoop(ps, 1, [ examined |-> <<>>, lines |-> <<>> ])

\* The closure's variables as createParticleSystem declares them, and a browser
\* with nothing scheduled.
NothingBuilt ==
    /\ loaded = FALSE /\ ctxRequested = FALSE /\ created = FALSE
    /\ particles = <<>>
    /\ mouseX = MOUSE_OFFSCREEN /\ mouseY = MOUSE_OFFSCREEN
    /\ animationId = 0 /\ isVisible = TRUE
    /\ canvasW = 0 /\ canvasH = 0
    /\ timerId = 0
    /\ rafPending = {} /\ nextRaf = 1
    /\ timerPending = {} /\ nextTimer = 1
    /\ physicsSteps = 0 /\ renders = 0 /\ framesFired = 0 /\ loopStarts = 0
    /\ pointerEvents = 0
    /\ lastOp = "none"

(***************************************************************************)
(* The page controls before any of their init functions has run.           *)
(***************************************************************************)
THEME_DARK == "dark"

THEME_LIGHT == "light"

DEFAULT_LANG == "en"

SUPPORTED_LANGS == { "en", "es" }

\* The language codes that occur as arguments and as stored or configured
\* values: the supported ones and one that is not.
LangCodes == { "en", "es", "fr" }

\* let currentLang = DEFAULT_LANG; const translationCache = {}; and a document
\* whose scripts have set no attribute yet, with the menu closed
\* home.js.  A string is kept as its text and its length; a prefix of it, what
\* substring(0, n) yields, as the text and the length of the prefix.
TYPING_SPEED_MS == 80

TYPING_PAUSE_MS == 2000

TYPING_DELETE_SPEED_MS == 40

Str(text, len) == [ text |-> text, len |-> len ]

EmptyString == Str("", 0)

\* The phrases of home.js, the bullet of the third written as an asterisk
DEFAULT_PHRASES ==
    << Str("Senior Backend Engineer", 23),
       Str("Building payment systems at scale", 33),
       Str("NestJS * Node.js * PostgreSQL", 29),
       Str("Exploring AI with LangChain", 27) >>

\* The typing animation and the debounced function before anything has run
HomeNotStarted ==
    /\ currentPhrases = DEFAULT_PHRASES
    /\ typingTimeoutId = 0 /\ typingTimers = {}
    /\ typingText = EmptyString
    /\ typingStarts = 0 /\ typingWriter = 0
    /\ homeReady = FALSE
    /\ clock = 0
    /\ timerInfo = {}
    /\ fnLog = << >> /\ callLog = << >>

\* The page as shipped: it has the #hero-typing element, and the particle
\* system debounces its resize listener by RESIZE_DEBOUNCE_MS
HomeAsShipped ==
    /\ typingElPresent = TRUE
    /\ delayMs = RESIZE_DEBOUNCE_MS

ControlsNotStarted ==
    /\ HomeNotStarted
    /\ dataTheme = "none" /\ themeReady = "no"
    /\ navReady = FALSE /\ ariaExpanded = "false" /\ linksOpen = FALSE
    /\ currentLang = DEFAULT_LANG /\ htmlLang = "none"
    /\ translationCache = {}
    /\ pendingCalls = {} /\ nextCall = 1
    /\ fetchCount = [ l \in LangCodes |-> 0 ] /\ fetchFailed = FALSE
    /\ applied = "none" /\ toggleLabel = "none" /\ i18nReady = "no"

\* A first visit with a working localStorage, which the models of the particle
\* system keep as it is
ControlsUntouched ==
    /\ ControlsNotStarted
    /\ HomeAsShipped
    /\ storedTheme = "none" /\ prefersDark = FALSE
    /\ storageReads = TRUE /\ storageWrites = TRUE
    /\ navPresent = TRUE
    /\ urlLang = "none" /\ storedLang = "none" /\ browserLang = "en"
    /\ lsCache = [ l \in LangCodes |-> "none" ]

Init ==
    /\ ControlsUntouched
    /\ prefersReducedMotion \in BOOLEAN
    /\ canvasPresent \in BOOLEAN
    /\ ctxAvailable \in BOOLEAN
    /\ \E v \in Viewports : innerWidth = v[1] /\ innerHeight = v[2]
    /\ hidden \in BOOLEAN
    /\ NothingBuilt

(***************************************************************************)
(* The animation loop.                                                     *)
(***************************************************************************)
\* animate() on the particle array ps, run with isVisible = vis and with pend
\* the callbacks still scheduled: one updateParticles(), one draw(), one
\* requestAnimationFrame.
Animate(ps, vis, pend) ==
    IF ~vis
    THEN /\ particles' = ps
         /\ rafPending' = pend
         /\ UNCHANGED <<animationId, nextRaf, physicsSteps, renders>>
    ELSE /\ particles' = UpdateParticles(ps, mouseX, mouseY, innerWidth, innerHeight)
         /\ physicsSteps' = physicsSteps + 1
         /\ renders' = renders + 1
         /\ animationId' = nextRaf
         /\ rafPending' = pend \cup {nextRaf}
         /\ nextRaf' = nextRaf + 1

\* start() without its test of animationId
StartUnguarded(ps) ==
    /\ isVisible' = TRUE
    /\ loopStarts' = loopStarts + 1
    /\ Animate(ps, TRUE, rafPending)

\* start() that only schedules the first callback, running no pass itself
StartScheduleOnly(ps) ==
    /\ isVisible' = TRUE
    /\ IF animationId = 0
       THEN /\ loopStarts' = loopStarts + 1
            /\ particles' = ps
            /\ animationId' = nextRaf
            /\ rafPending' = rafPending \cup {nextRaf}
            /\ nextRaf' = nextRaf + 1
            /\ UNCHANGED <<physicsSteps, renders>>
       ELSE /\ particles' = ps
            /\ UNCHANGED <<animationId, rafPending, nextRaf, physicsSteps, renders, loopStarts>>

\* start(), with ps the particle array at the time of the call
Start(ps) ==
    /\ isVisible' = TRUE
    /\ IF animationId = 0
       THEN /\ loopStarts' = loopStarts + 1
            /\ Animate(ps, TRUE, rafPending)
       ELSE /\ particles' = ps
            /\ UNCHANGED <<animationId, rafPending, nextRaf, physicsSteps, renders, loopStarts>>

\* stop() without its cancelAnimationFrame
StopWithoutCancel ==
    /\ isVisible' = FALSE
    /\ animationId' = 0
    /\ UNCHANGED <<particles, rafPending, nextRaf, physicsSteps, renders, loopStarts>>

\* stop()
Stop ==
    /\ isVisible' = FALSE
    /\ IF animationId # 0
       THEN /\ rafPending' = rafPending \ {animationId}
            /\ animationId' = 0
       ELSE UNCHANGED <<animationId, rafPending>>
    /\ UNCHANGED <<particles, nextRaf, physicsSteps, renders, loopStarts>>

\* A frame callback that runs its pass and schedules no successor
FrameCallbackOnce(id) ==
    /\ id \in rafPending
    /\ framesFired' = framesFired + 1
    /\ particles' = UpdateParticles(particles, mouseX, mouseY, innerWidth, innerHeight)
    /\ physicsSteps' = physicsSteps + 1
    /\ renders' = renders + 1
    /\ animationId' = 0
    /\ rafPending' = rafPending \ {id}
    /\ lastOp' = "frame"
    /\ UNCHANGED <<envVars, loaded, ctxRequested, created, mouseX, mouseY, isVisible,
                   canvasW, canvasH, timerId, timerPending, nextTimer, nextRaf,
                   loopStarts>>

\* The browser runs the scheduled callback id, which is animate.
FrameCallback(id) ==
    /\ id \in rafPending
    /\ framesFired' = framesFired + 1
    /\ Animate(particles, isVisible, rafPending \ {id})
    /\ lastOp' = "frame"
    /\ UNCHANGED <<envVars, loaded, ctxRequested, created, mouseX, mouseY, isVisible,
                   canvasW, canvasH, timerId, timerPending, nextTimer,
                   loopStarts>>

(***************************************************************************)
(* Page load: the exported initParticles() and createParticleSystem.       *)
(***************************************************************************)
\* The gate left out
ReducedMotionIgnored == FALSE

\* if (prefersReducedMotion) { return; }
ReducedMotionGate == prefersReducedMotion

\* resize(): the canvas takes the size of the viewport of that moment
ResizeCanvas ==
    /\ canvasW' = innerWidth
    /\ canvasH' = innerHeight

\* The page load without the test of the context createParticleSystem got
PageLoadContextUnchecked(seed) ==
    /\ ~loaded
    /\ loaded' = TRUE
    /\ lastOp' = "load"
    /\ IF ReducedMotionGate \/ ~canvasPresent
       THEN UNCHANGED <<ctxRequested, created, canvasW, canvasH, loopVars>>
       ELSE /\ ctxRequested' = TRUE
            /\ created' = TRUE
            /\ ResizeCanvas
            /\ Start(NewParticles(seed, innerWidth, innerHeight))
    /\ UNCHANGED <<envVars, mouseX, mouseY, timerId, timerPending, nextTimer,
                   framesFired>>

\* initParticles(), exported: the gates, createParticleSystem(canvas) (the
\* context, resize(), initParticles(), the listeners) and system.start()
PageLoad(seed) ==
    /\ ~loaded
    /\ loaded' = TRUE
    /\ lastOp' = "load"
    /\ IF ReducedMotionGate \/ ~canvasPresent
       THEN UNCHANGED <<ctxRequested, created, canvasW, canvasH, loopVars>>
       ELSE /\ ctxRequested' = TRUE
            /\ IF ~ctxAvailable
               THEN UNCHANGED <<created, canvasW, canvasH, loopVars>>
               ELSE \* resize(); initParticles(); the listeners; system.start()
                    /\ created' = TRUE
                    /\ ResizeCanvas
                    /\ Start(NewParticles(seed, innerWidth, innerHeight))
    /\ UNCHANGED <<envVars, mouseX, mouseY, timerId, timerPending, nextTimer,
                   framesFired>>

(***************************************************************************)
(* The listeners.  An event reaches the closure only once it exists.       *)
(***************************************************************************)
\* document 'visibilitychange': document.hidden is h when the listener runs
VisibilityChange(h) ==
    /\ hidden' = h
    /\ lastOp' = IF h THEN "hide" ELSE "show"
    /\ IF created
       THEN IF h THEN Stop ELSE Start(particles)
       ELSE UNCHANGED loopVars
    /\ UNCHANGED <<prefersReducedMotion, canvasPresent, ctxAvailable, innerWidth, innerHeight,
                   loaded, ctxRequested, created, mouseX, mouseY, canvasW, canvasH,
                   timerId, timerPending, nextTimer, framesFired>>

\* debouncedFn() without its clearTimeout
DebouncedCallWithoutClear ==
    /\ timerId' = nextTimer
    /\ timerPending' = timerPending \cup {nextTimer}
    /\ nextTimer' = nextTimer + 1

\* debouncedFn(): clearTimeout of the timer not yet run, then setTimeout
DebouncedCall ==
    /\ timerId' = nextTimer
    /\ timerPending' = (IF timerId # 0 THEN timerPending \ {timerId} ELSE timerPending)
                           \cup {nextTimer}
    /\ nextTimer' = nextTimer + 1

\* window 'resize': the viewport is now w x h
ResizeEvent(w, h) ==
    /\ innerWidth' = w
    /\ innerHeight' = h
    /\ lastOp' = "resize"
    /\ IF created THEN DebouncedCall ELSE UNCHANGED <<timerId, timerPending, nextTimer>>
    /\ UNCHANGED <<prefersReducedMotion, canvasPresent, ctxAvailable, hidden,
                   loaded, ctxRequested, created, mouseX, mouseY, canvasW, canvasH,
                   loopVars, framesFired>>

\* The browser runs timer id: debounce's arrow function calls resize() and
\* initParticles(), then clears timerId.
TimerFires(id, seed) ==
    /\ id \in timerPending
    /\ timerPending' = timerPending \ {id}
    /\ ResizeCanvas
    /\ particles' = NewParticles(seed, innerWidth, innerHeight)
    /\ timerId' = 0
    /\ lastOp' = "timer"
    /\ UNCHANGED <<envVars, loaded, ctxRequested, created, mouseX, mouseY,
                   animationId, isVisible, rafPending, nextRaf, nextTimer,
                   physicsSteps, renders, framesFired, loopStarts>>

\* canvas.parentElement 'mousemove' at (x, y)
MouseMove(x, y) ==
    /\ lastOp' = "move"
    /\ IF created
       THEN mouseX' = x /\ mouseY' = y
       ELSE UNCHANGED <<mouseX, mouseY>>
    /\ UNCHANGED <<envVars, loaded, ctxRequested, created, canvasW, canvasH,
                   timerId, timerPending, nextTimer, loopVars, framesFired>>

\* canvas.parentElement 'mouseleave'
MouseLeave ==
    /\ lastOp' = "leave"
    /\ IF created
       THEN mouseX' = MOUSE_OFFSCREEN /\ mouseY' = MOUSE_OFFSCREEN
       ELSE UNCHANGED <<mouseX, mouseY>>
    /\ UNCHANGED <<envVars, loaded, ctxRequested, created, canvasW, canvasH,
                   timerId, timerPending, nextTimer, loopVars, framesFired>>

(***************************************************************************)
(* The page model: every event, in any order, within the bounds.           *)
(***************************************************************************)
\* The random streams a batch of particles is drawn from.
Seeds == { 0, 1 }

InBounds ==
    /\ physicsSteps' <= MaxPasses
    /\ nextTimer' <= MaxResizes + 1
    /\ UNCHANGED <<pointerEvents, controlVars>>

FrameStep == \E id \in rafPending : FrameCallback(id) /\ InBounds

Next ==
    \/ \E seed \in Seeds : PageLoad(seed) /\ InBounds
    \/ FrameStep
    \/ \E h \in BOOLEAN : VisibilityChange(h) /\ InBounds
    \/ \E v \in Viewports : ResizeEvent(v[1], v[2]) /\ InBounds
    \/ \E id \in timerPending, seed \in Seeds : TimerFires(id, seed) /\ InBounds
    \/ \E q \in PointerPositions : MouseMove(q[1], q[2]) /\ InBounds
    \/ MouseLeave /\ InBounds

Spec == Init /\ [][Next]_vars

(***************************************************************************)
(* The page model under the browser's scheduling: a scheduled animation-   *)
(* frame callback is run in the end, unless it is cancelled first.  The    *)
(* page is a small one, of at most two particles.                          *)
(***************************************************************************)
LiveViewports == { <<100, 100>>, <<200, 150>> }

InitLive ==
    /\ Init
    /\ <<innerWidth, innerHeight>> \in LiveViewports

NextLive ==
    \/ \E seed \in Seeds : PageLoad(seed) /\ InBounds
    \/ FrameStep
    \/ \E h \in BOOLEAN : VisibilityChange(h) /\ InBounds
    \/ \E v \in LiveViewports : ResizeEvent(v[1], v[2]) /\ InBounds
    \/ \E id \in timerPending, seed \in Seeds : TimerFires(id, seed) /\ InBounds
    \/ \E q \in PointerPositions : MouseMove(q[1], q[2]) /\ InBounds
    \/ MouseLeave /\ InBounds

SpecLive == InitLive /\ [][NextLive]_vars /\ WF_vars(FrameStep)

(***************************************************************************)
(* The long-run physics model: one page with the tab visible and the       *)
(* viewport fixed, many frames, few pointer events.                        *)
(***************************************************************************)
DeepSeeds == { 0, 1, 2 }

DeepViewports == { <<200, 150>> }

DeepPointerPositions == { <<100, 75>>, <<60, 40>> }

InitDeep ==
    /\ ControlsUntouched
    /\ prefersReducedMotion = FALSE
    /\ canvasPresent = TRUE
    /\ ctxAvailable = TRUE
    /\ \E v \in DeepViewports : innerWidth = v[1] /\ innerHeight = v[2]
    /\ hidden = FALSE
    /\ NothingBuilt

InDeepBounds ==
    /\ physicsSteps' <= MaxDeepPasses
    /\ UNCHANGED <<pointerEvents, controlVars>>

PointerEventCounted ==
    /\ pointerEvents < MaxDeepPointerEvents
    /\ pointerEvents' = pointerEvents + 1
    /\ UNCHANGED controlVars

NextDeep ==
    \/ \E seed \in DeepSeeds : PageLoad(seed) /\ InDeepBounds
    \/ \E id \in rafPending : FrameCallback(id) /\ InDeepBounds
    \/ \E q \in DeepPointerPositions : MouseMove(q[1], q[2]) /\ PointerEventCounted
    \/ MouseLeave /\ PointerEventCounted

SpecDeep == InitDeep /\ [][NextDeep]_vars

(***************************************************************************)
(* The single-particle model: a page whose viewport holds one particle,    *)
(* taken right after its load, with the particle anywhere on a coarse grid *)
(* of positions and initial velocities; then pointer events and frames.    *)
(***************************************************************************)
StepViewport == <<160, 160>>

StepCoordinates == { 0, Px(100), Px(160) }

StepVelocities == { -15, 0, 15 }

StepPointerPositions ==
    { <<100, 100>>, <<100, 101>>, <<100, 160>>, <<101, 100>>, <<10, 100>>, <<30, 30>> }

InitStep ==
    /\ ControlsUntouched
    /\ prefersReducedMotion = FALSE
    /\ canvasPresent = TRUE
    /\ ctxAvailable = TRUE
    /\ innerWidth = StepViewport[1] /\ innerHeight = StepViewport[2]
    /\ hidden = FALSE
    /\ loaded = TRUE /\ ctxRequested = TRUE /\ created = TRUE
    /\ \E x \in StepCoordinates, y \in StepCoordinates,
          vx \in StepVelocities, vy \in StepVelocities :
          particles = << [ x |-> x, y |-> y, vx |-> vx, vy |-> vy,
                           radius |-> PARTICLE_RADIUS_BASE ] >>
    /\ mouseX = MOUSE_OFFSCREEN /\ mouseY = MOUSE_OFFSCREEN
    /\ animationId = 1 /\ isVisible = TRUE
    /\ canvasW = StepViewport[1] /\ canvasH = StepViewport[2]
    /\ timerId = 0
    /\ rafPending = {1} /\ nextRaf = 2
    /\ timerPending = {} /\ nextTimer = 1
    /\ physicsSteps = 1 /\ renders = 1 /\ framesFired = 0 /\ loopStarts = 1
    /\ pointerEvents = 0
    /\ lastOp = "load"

InStepBounds ==
    /\ physicsSteps' <= 1 + MaxStepPasses
    /\ UNCHANGED <<pointerEvents, controlVars>>

NextStep ==
    \/ \E id \in rafPending : FrameCallback(id) /\ InStepBounds
    \/ \E q \in StepPointerPositions : MouseMove(q[1], q[2]) /\ InStepBounds
    \/ MouseLeave /\ InStepBounds

SpecStep == InitStep /\ [][NextStep]_vars

(***************************************************************************)
(* The render model: the page model on viewports of three and of four      *)
(* particles, the tab visible throughout.                                  *)
(***************************************************************************)
RenderViewports == { <<250, 200>>, <<300, 200>> }

InitRender ==
    /\ ControlsUntouched
    /\ prefersReducedMotion = FALSE
    /\ canvasPresent = TRUE
    /\ ctxAvailable = TRUE
    /\ \E v \in RenderViewports : innerWidth = v[1] /\ innerHeight = v[2]
    /\ hidden = FALSE
    /\ NothingBuilt

NextRender ==
    \/ \E seed \in Seeds : PageLoad(seed) /\ InBounds
    \/ FrameStep
    \/ \E v \in RenderViewports : ResizeEvent(v[1], v[2]) /\ InBounds
    \/ \E id \in timerPending, seed \in Seeds : TimerFires(id, seed) /\ InBounds
    \/ \E q \in PointerPositions : MouseMove(q[1], q[2]) /\ InBounds
    \/ MouseLeave /\ InBounds

SpecRender == InitRender /\ [][NextRender]_vars

(***************************************************************************)
(* The theme (theme.js).                                                   *)
(***************************************************************************)
\* getInitialTheme(): the stored preference if it is a theme, else the OS's
getInitialTheme ==
    IF storedTheme = THEME_DARK \/ storedTheme = THEME_LIGHT
    THEN storedTheme
    ELSE IF prefersDark THEN THEME_DARK ELSE THEME_LIGHT

\* applyTheme(theme): the attribute, and the preference if setItem works
applyTheme(theme) ==
    /\ dataTheme' = theme
    /\ storedTheme' = IF storageWrites THEN theme ELSE storedTheme

\* toggleTheme() that takes the current theme from the stored preference
toggleThemeFromStored ==
    applyTheme(IF storedTheme = THEME_DARK THEN THEME_LIGHT ELSE THEME_DARK)

\* toggleTheme(): the current theme is read from the attribute
toggleTheme ==
    applyTheme(IF dataTheme = THEME_DARK THEN THEME_LIGHT ELSE THEME_DARK)

\* initTheme(): getInitialTheme() reads localStorage outside any try, so a
\* getItem that throws ends initTheme() before anything is applied or bound.
InitTheme ==
    /\ themeReady = "no"
    /\ lastOp' = "initTheme"
    /\ IF storageReads
       THEN /\ themeReady' = "yes"
            /\ applyTheme(getInitialTheme)
       ELSE /\ themeReady' = "threw"
            /\ UNCHANGED <<dataTheme, storedTheme>>
    /\ UNCHANGED <<prefersDark, storageVars, navVars, langVars>>

\* 'click' on a [data-theme-toggle] button; the listener exists after initTheme()
ThemeToggleClick ==
    /\ lastOp' = "themeClick"
    /\ IF themeReady = "yes" THEN toggleTheme ELSE UNCHANGED <<dataTheme, storedTheme>>
    /\ UNCHANGED <<prefersDark, themeReady, storageVars, navVars, langVars>>

\* 'change' of the (prefers-color-scheme: dark) media query to matches: the OS
\* theme is applied only while no preference is stored
ColorSchemeChange(matches) ==
    /\ prefersDark' = matches
    /\ lastOp' = "schemeChange"
    /\ IF themeReady = "yes" /\ storageReads /\ storedTheme = "none"
       THEN applyTheme(IF matches THEN THEME_DARK ELSE THEME_LIGHT)
       ELSE UNCHANGED <<dataTheme, storedTheme>>
    /\ UNCHANGED <<themeReady, storageVars, navVars, langVars>>

(***************************************************************************)
(* The mobile navigation (initMobileNav of the shared utilities).          *)
(***************************************************************************)
\* The nav link's listener with its setAttribute left out
CloseMenuClassOnly ==
    /\ linksOpen' = FALSE
    /\ UNCHANGED ariaExpanded

\* toggle.setAttribute('aria-expanded', 'false'); links.classList.remove(...)
CloseMenu ==
    /\ ariaExpanded' = "false"
    /\ linksOpen' = FALSE

\* initMobileNav(): nothing is bound when the toggle or the list is missing
InitMobileNav ==
    /\ ~navReady
    /\ lastOp' = "initMobileNav"
    /\ navReady' = navPresent
    /\ UNCHANGED <<navPresent, ariaExpanded, linksOpen, storageVars, themeVars, langVars>>

\* 'click' on #mobile-toggle
NavToggleClick ==
    /\ lastOp' = "navToggle"
    /\ IF navReady
       THEN LET isOpen == ariaExpanded = "true"
            IN  /\ ariaExpanded' = (IF isOpen THEN "false" ELSE "true")
                /\ linksOpen' = ~isOpen
       ELSE UNCHANGED <<ariaExpanded, linksOpen>>
    /\ UNCHANGED <<navPresent, navReady, storageVars, themeVars, langVars>>

\* 'click' on a .nav__link
NavLinkClick ==
    /\ lastOp' = "navLink"
    /\ IF navReady THEN CloseMenu ELSE UNCHANGED <<ariaExpanded, linksOpen>>
    /\ UNCHANGED <<navPresent, navReady, storageVars, themeVars, langVars>>

\* document 'keydown' with e.key = key
KeyDown(key) ==
    /\ lastOp' = (IF key = "Escape" THEN "escape" ELSE "key")
    /\ IF navReady /\ key = "Escape" /\ ariaExpanded = "true"
       THEN CloseMenu
       ELSE UNCHANGED <<ariaExpanded, linksOpen>>
    /\ UNCHANGED <<navPresent, navReady, storageVars, themeVars, langVars>>

(***************************************************************************)
(* The controls model: the theme and the mobile navigation of one page,    *)
(* for every stored preference, OS scheme and localStorage behaviour.      *)
(***************************************************************************)
StoredThemes == { "none", "dark", "light", "auto" }

Keys == { "Escape", "Enter" }

InitControls ==
    /\ ControlsNotStarted
    /\ HomeAsShipped
    /\ storedTheme \in StoredThemes
    /\ prefersDark \in BOOLEAN
    /\ storageReads \in BOOLEAN
    /\ storageWrites \in BOOLEAN
    /\ navPresent \in BOOLEAN
    /\ urlLang = "none" /\ storedLang = "none" /\ browserLang = "en"
    /\ lsCache = [ l \in LangCodes |-> "none" ]
    /\ prefersReducedMotion = TRUE /\ canvasPresent = TRUE /\ ctxAvailable = TRUE
    /\ innerWidth = 100 /\ innerHeight = 100
    /\ hidden = FALSE
    /\ NothingBuilt

NextControls ==
    \/ InitTheme /\ UNCHANGED <<particleVars, homeVars>>
    \/ ThemeToggleClick /\ UNCHANGED <<particleVars, homeVars>>
    \/ \E matches \in BOOLEAN : ColorSchemeChange(matches) /\ UNCHANGED <<particleVars, homeVars>>
    \/ InitMobileNav /\ UNCHANGED <<particleVars, homeVars>>
    \/ NavToggleClick /\ UNCHANGED <<particleVars, homeVars>>
    \/ NavLinkClick /\ UNCHANGED <<particleVars, homeVars>>
    \/ \E key \in Keys : KeyDown(key) /\ UNCHANGED <<particleVars, homeVars>>

SpecControls == InitControls /\ [][NextControls]_vars

(***************************************************************************)
(* The language switch (i18n).  A translation object is named by the       *)
(* language whose JSON it is; "empty" is {}.  An await on a value that is  *)
(* already there resumes in a microtask, before any other event, so a      *)
(* switchLang() served from a cache completes within the event that called *)
(* it; one that fetches completes when its response arrives.               *)
(***************************************************************************)
\* A test that lets every code pass
SupportedAny(lang) == TRUE

\* SUPPORTED_LANGS.includes(lang)
Supported(lang) == lang \in SUPPORTED_LANGS

\* getInitialLang() that asks localStorage before the URL
getInitialLangStoredFirst ==
    IF storedLang # "none" /\ Supported(storedLang) THEN storedLang
    ELSE IF urlLang # "none" /\ Supported(urlLang) THEN urlLang
    ELSE IF Supported(browserLang) THEN browserLang
    ELSE DEFAULT_LANG

\* getInitialLang(), where localStorage can be read
getInitialLang ==
    IF urlLang # "none" /\ Supported(urlLang) THEN urlLang
    ELSE IF storedLang # "none" /\ Supported(storedLang) THEN storedLang
    ELSE IF Supported(browserLang) THEN browserLang
    ELSE DEFAULT_LANG

\* loadTranslations(lang) up to its fetch that takes whatever localStorage
\* holds for the language, parseable or not
LoadFromCachesTrustingStorage(lang, tc, ls) ==
    IF lang \in tc
    THEN [ hit |-> TRUE, tc |-> tc, ls |-> ls ]
    ELSE IF storageReads /\ ls[lang] # "none"
    THEN [ hit |-> TRUE, tc |-> tc \cup {lang}, ls |-> ls ]
    ELSE [ hit |-> FALSE, tc |-> tc, ls |-> ls ]

\* loadTranslations(lang) up to its fetch, on the caches tc (memory) and ls
\* (localStorage): a hit in memory, a hit in localStorage that is copied to
\* memory, or a miss, on which a corrupt localStorage entry is removed.
LoadFromCaches(lang, tc, ls) ==
    IF lang \in tc
    THEN [ hit |-> TRUE, tc |-> tc, ls |-> ls ]
    ELSE IF storageReads /\ ls[lang] = "valid"
    THEN [ hit |-> TRUE, tc |-> tc \cup {lang}, ls |-> ls ]
    ELSE [ hit |-> FALSE, tc |-> tc,
           ls  |-> IF storageReads /\ ls[lang] = "corrupt" /\ storageWrites
                   THEN [ ls EXCEPT ![lang] = "none" ] ELSE ls ]

\* switchLang() after its await: applyTranslations(translations),
\* updateToggleLabel() with the currentLang of that moment (cur); and for the
\* call made by initI18n(), the binding of the toggle buttons that follows it.
AfterLoad(translations, init, cur) ==
    /\ applied' = translations
    /\ toggleLabel' = cur
    /\ i18nReady' = IF init THEN "yes" ELSE i18nReady

\* switchLang(lang); init tells the call made by initI18n()
switchLang(lang, init) ==
    IF ~Supported(lang)
    THEN UNCHANGED <<currentLang, htmlLang, storedLang, translationCache, lsCache,
                     pendingCalls, nextCall, fetchCount, applied, toggleLabel, i18nReady>>
    ELSE /\ currentLang' = lang
         /\ storedLang' = IF storageWrites THEN lang ELSE storedLang
         /\ htmlLang' = lang
         /\ nextCall' = nextCall + 1
         /\ LET r == LoadFromCaches(lang, translationCache, lsCache)
            IN  /\ translationCache' = r.tc
                /\ lsCache' = r.ls
                /\ IF r.hit
                   THEN /\ AfterLoad(lang, init, lang)
                        /\ UNCHANGED <<pendingCalls, fetchCount>>
                   ELSE /\ pendingCalls' = pendingCalls \cup
                              { [ id |-> nextCall, lang |-> lang, file |-> lang, init |-> init ] }
                        /\ fetchCount' = [ fetchCount EXCEPT ![lang] = @ + 1 ]
                        /\ i18nReady' = IF init THEN "loading" ELSE i18nReady
                        /\ UNCHANGED <<applied, toggleLabel>>

\* initI18n(): getInitialLang() reads localStorage outside any try, unless the
\* URL parameter decides first
InitI18n ==
    /\ i18nReady = "no"
    /\ lastOp' = "initI18n"
    /\ IF ~(urlLang # "none" /\ Supported(urlLang)) /\ ~storageReads
       THEN /\ i18nReady' = "threw"
            /\ UNCHANGED <<currentLang, htmlLang, storedLang, translationCache, lsCache,
                           pendingCalls, nextCall, fetchCount, applied, toggleLabel>>
       ELSE switchLang(getInitialLang, TRUE)
    /\ UNCHANGED <<urlLang, browserLang, fetchFailed, storageVars, themeVars, navVars>>

\* 'click' on a [data-lang-toggle] button, bound once initI18n() is through:
\* toggleLang()
LangToggleClick ==
    /\ lastOp' = "langClick"
    /\ IF i18nReady = "yes"
       THEN switchLang(IF currentLang = "en" THEN "es" ELSE "en", FALSE)
       ELSE UNCHANGED <<currentLang, htmlLang, storedLang, translationCache, lsCache,
                        pendingCalls, nextCall, fetchCount, applied, toggleLabel, i18nReady>>
    /\ UNCHANGED <<urlLang, browserLang, fetchFailed, storageVars, themeVars, navVars>>

\* A call of the exported switchLang(lang) by another module, once initI18n()
\* has been called
SwitchLangCall(lang) ==
    /\ i18nReady \in {"loading", "yes"}
    /\ lastOp' = (IF Supported(lang) THEN "switchLang" ELSE "switchLangUnsupported")
    /\ switchLang(lang, FALSE)
    /\ UNCHANGED <<urlLang, browserLang, fetchFailed, storageVars, themeVars, navVars>>

\* The response to the fetch of a waiting call arrives, ok (a 2xx with valid
\* JSON) or not; loadTranslations() goes on, falling back to the default
\* language, and switchLang() completes unless a second fetch is needed.
FetchCompletes(call, ok) ==
    /\ call \in pendingCalls
    /\ lastOp' = "fetchDone"
    /\ IF ok
       THEN /\ translationCache' = translationCache \cup {call.file}
            /\ lsCache' = IF storageWrites
                          THEN [ lsCache EXCEPT ![call.file] = "valid" ] ELSE lsCache
            /\ pendingCalls' = pendingCalls \ {call}
            /\ AfterLoad(call.file, call.init, currentLang)
            /\ UNCHANGED <<fetchCount, fetchFailed>>
       ELSE /\ fetchFailed' = TRUE
            /\ IF call.file # DEFAULT_LANG
               THEN LET r == LoadFromCaches(DEFAULT_LANG, translationCache, lsCache)
                    IN  /\ translationCache' = r.tc
                        /\ lsCache' = r.ls
                        /\ IF r.hit
                           THEN /\ pendingCalls' = pendingCalls \ {call}
                                /\ AfterLoad(DEFAULT_LANG, call.init, currentLang)
                                /\ UNCHANGED fetchCount
                           ELSE /\ pendingCalls' = (pendingCalls \ {call}) \cup
                                      { [ call EXCEPT !.file = DEFAULT_LANG ] }
                                /\ fetchCount' = [ fetchCount EXCEPT ![DEFAULT_LANG] = @ + 1 ]
                                /\ UNCHANGED <<applied, toggleLabel, i18nReady>>
               ELSE /\ pendingCalls' = pendingCalls \ {call}
                    /\ AfterLoad("empty", call.init, currentLang)
                    /\ UNCHANGED <<translationCache, lsCache, fetchCount>>
    /\ UNCHANGED <<currentLang, htmlLang, urlLang, storedLang, browserLang, nextCall,
                   storageVars, themeVars, navVars>>

(***************************************************************************)
(* The language model: one page session, for every initial language        *)
(* source, localStorage behaviour and cache content, with responses        *)
(* arriving in any order.                                                  *)
(***************************************************************************)
UrlLangs == { "none", "es" }

StoredLangs == { "none", "en", "fr" }

BrowserLangs == { "es", "fr" }

CacheEntries == { "none", "valid", "corrupt" }

InitLang ==
    /\ ControlsNotStarted
    /\ HomeAsShipped
    /\ storedTheme = "none" /\ prefersDark = FALSE
    /\ navPresent = TRUE
    /\ storageReads \in BOOLEAN
    /\ storageWrites \in BOOLEAN
    /\ urlLang \in UrlLangs
    /\ storedLang \in StoredLangs
    /\ browserLang \in BrowserLangs
    /\ \E en \in CacheEntries, es \in CacheEntries :
          lsCache = [ l \in LangCodes |-> IF l = "en" THEN en ELSE IF l = "es" THEN es ELSE "none" ]
    /\ prefersReducedMotion = TRUE /\ canvasPresent = TRUE /\ ctxAvailable = TRUE
    /\ innerWidth = 100 /\ innerHeight = 100
    /\ hidden = FALSE
    /\ NothingBuilt

InLangBounds ==
    /\ nextCall' <= MaxLangCalls + 1
    /\ UNCHANGED <<particleVars, homeVars>>

NextLang ==
    \/ InitI18n /\ InLangBounds
    \/ LangToggleClick /\ InLangBounds
    \/ \E lang \in LangCodes : SwitchLangCall(lang) /\ InLangBounds
    \/ \E call \in pendingCalls, ok \in BOOLEAN : FetchCompletes(call, ok) /\ InLangBounds

SpecLang == InitLang /\ [][NextLang]_vars

(***************************************************************************)
(* The initial-language model: the language model on a first visit (empty  *)
(* translation caches), for every combination of URL parameter, stored     *)
(* language and browser language, supported or not.                        *)
(***************************************************************************)
LangSources == { "none" } \cup LangCodes

InitLangSources ==
    /\ ControlsNotStarted
    /\ HomeAsShipped
    /\ storedTheme = "none" /\ prefersDark = FALSE
    /\ navPresent = TRUE
    /\ storageReads \in BOOLEAN
    /\ storageWrites \in BOOLEAN
    /\ urlLang \in LangSources
    /\ storedLang \in LangSources
    /\ browserLang \in LangCodes
    /\ lsCache = [ l \in LangCodes |-> "none" ]
    /\ prefersReducedMotion = TRUE /\ canvasPresent = TRUE /\ ctxAvailable = TRUE
    /\ innerWidth = 100 /\ innerHeight = 100
    /\ hidden = FALSE
    /\ NothingBuilt

SpecLangSources == InitLangSources /\ [][NextLang]_vars

(***************************************************************************)
(* The typing animation (home.js).  type() runs to its end within one      *)
(* timer task, so a pending setTimeout(type, delay) carries the variables  *)
(* of its closure as type() left them.                                     *)
(***************************************************************************)
\* s.substring(0, n): n is clamped to 0 .. s.length
substring(s, n) ==
    LET k == Max(0, Min(n, s.len))
    IN  IF k = 0 THEN EmptyString ELSE Str(s.text, k)

\* stopTypingAnimation() that forgets the timer without clearing it
stopTypingAnimationKeepingTimer == typingTimers

\* stopTypingAnimation(): the timers left pending by clearTimeout(typingTimeoutId)
stopTypingAnimation ==
    IF typingTimeoutId # 0
    THEN { t \in typingTimers : t.id # typingTimeoutId }
    ELSE typingTimers

\* The handle setTimeout returns: one that no pending timer has
NewTimeoutId(pending) ==
    CHOOSE id \in 1 .. Cardinality(pending) + 1 :
        /\ \A t \in pending : t.id # id
        /\ \A j \in 1 .. id - 1 : \E t \in pending : t.id = j

\* type() on the closure variables c: what it leaves in them, what it writes
\* to element.textContent, and the delay of the setTimeout it ends with
type(c) ==
    LET currentPhrase == c.phrases[c.phraseIndex + 1]
        charIndex     == IF c.isDeleting THEN c.charIndex - 1 ELSE c.charIndex + 1
        text          == substring(currentPhrase, charIndex)
    IN  IF ~c.isDeleting /\ charIndex = currentPhrase.len
        THEN [ closure |-> [ c EXCEPT !.charIndex = charIndex, !.isDeleting = TRUE ],
               text    |-> text,
               delay   |-> TYPING_PAUSE_MS ]
        ELSE IF c.isDeleting /\ charIndex = 0
        THEN [ closure |-> [ c EXCEPT !.charIndex = charIndex, !.isDeleting = FALSE,
                                      !.phraseIndex = (c.phraseIndex + 1) % Len(c.phrases) ],
               text    |-> text,
               delay   |-> TYPING_SPEED_MS ]
        ELSE [ closure |-> [ c EXCEPT !.charIndex = charIndex ],
               text    |-> text,
               delay   |-> IF c.isDeleting THEN TYPING_DELETE_SPEED_MS ELSE TYPING_SPEED_MS ]

\* startTypingAnimation(document.getElementById('hero-typing'), phrases)
startTypingAnimation(phrases) ==
    /\ typingStarts' = typingStarts + 1
    /\ IF ~typingElPresent \/ Len(phrases) = 0
       THEN /\ typingTimers' = stopTypingAnimation
            /\ typingTimeoutId' = 0
            /\ UNCHANGED <<typingText, typingWriter>>
       ELSE IF prefersReducedMotion
       THEN /\ typingTimers' = stopTypingAnimation
            /\ typingTimeoutId' = 0
            /\ typingText' = substring(phrases[1], phrases[1].len)
            /\ typingWriter' = typingStarts + 1
       ELSE LET r  == type([ phrases |-> phrases, phraseIndex |-> 0,
                             charIndex |-> 0, isDeleting |-> FALSE ])
                id == NewTimeoutId(stopTypingAnimation)
            IN  /\ typingTimers' = stopTypingAnimation \cup
                       { [ id |-> id, call |-> typingStarts + 1,
                           delay |-> r.delay, closure |-> r.closure ] }
                /\ typingTimeoutId' = id
                /\ typingText' = r.text
                /\ typingWriter' = typingStarts + 1

\* init(), its last statement: startTypingAnimation(typingEl, currentPhrases)
HomeInit ==
    /\ ~homeReady
    /\ homeReady' = TRUE
    /\ startTypingAnimation(currentPhrases)
    /\ lastOp' = "homeInit"
    /\ UNCHANGED <<typingElPresent, currentPhrases, debounceVars>>

\* The callback registered with onLangChange, called by switchLang() with
\* translations whose hero.typing is typing: an array with its items, or
\* something else or nothing
LangChanged(typing) ==
    /\ currentPhrases' = (IF typing.isArray /\ Len(typing.items) > 0
                          THEN typing.items ELSE DEFAULT_PHRASES)
    /\ startTypingAnimation(currentPhrases')
    /\ lastOp' = "langChange"
    /\ UNCHANGED <<typingElPresent, homeReady, debounceVars>>

\* The browser runs the pending timer t: type()
TypingTick(t) ==
    /\ t \in typingTimers
    /\ LET r  == type(t.closure)
           id == NewTimeoutId(typingTimers \ {t})
       IN  /\ r.closure.charIndex <= MaxCharIndex
           /\ typingTimers' = (typingTimers \ {t}) \cup
                  { [ id |-> id, call |-> t.call, delay |-> r.delay, closure |-> r.closure ] }
           /\ typingTimeoutId' = id
           /\ typingText' = r.text
           /\ typingWriter' = t.call
    /\ lastOp' = "typingTick"
    /\ UNCHANGED <<typingElPresent, currentPhrases, typingStarts, homeReady, debounceVars>>

(***************************************************************************)
(* The typing model: one page session with or without the element and the  *)
(* reduced-motion preference; init, language changes that bring any        *)
(* hero.typing a translation file can hold, and timers.                    *)
(***************************************************************************)
TranslatedTyping ==
    { [ isArray |-> FALSE, items |-> << >> ],
      [ isArray |-> TRUE,  items |-> << >> ],
      [ isArray |-> TRUE,  items |-> << Str("Ingeniero Backend", 17), Str("IA", 2) >> ],
      [ isArray |-> TRUE,  items |-> << Str("Hola", 4), EmptyString >> ] }

InitTyping ==
    /\ ControlsNotStarted
    /\ typingElPresent \in BOOLEAN
    /\ delayMs = RESIZE_DEBOUNCE_MS
    /\ storedTheme = "none" /\ prefersDark = FALSE
    /\ storageReads = TRUE /\ storageWrites = TRUE
    /\ navPresent = TRUE
    /\ urlLang = "none" /\ storedLang = "none" /\ browserLang = "en"
    /\ lsCache = [ l \in LangCodes |-> "none" ]
    /\ prefersReducedMotion \in BOOLEAN
    /\ canvasPresent = TRUE /\ ctxAvailable = TRUE
    /\ innerWidth = 100 /\ innerHeight = 100
    /\ hidden = FALSE
    /\ NothingBuilt

InTypingBounds ==
    /\ typingStarts' <= MaxTypingStarts
    /\ UNCHANGED <<particleVars, storageVars, themeVars, navVars, langVars>>

TypingTimerRuns == \E t \in typingTimers : TypingTick(t) /\ InTypingBounds

NextTyping ==
    \/ HomeInit /\ InTypingBounds
    \/ \E typing \in TranslatedTyping : LangChanged(typing) /\ InTypingBounds
    \/ TypingTimerRuns

SpecTyping == InitTyping /\ [][NextTyping]_vars

\* setTimeout: a timer that stays pending is run
SpecTypingLive == SpecTyping /\ WF_vars(TypingTimerRuns)

(***************************************************************************)
(* debounce(fn, delayMs) on a clock.  The timers are punctual: the browser *)
(* runs a timer at the millisecond it is due, before it handles anything   *)
(* else of that millisecond and before the clock moves on.  callLog and    *)
(* fnLog record when, and with which arguments, the debounced function and *)
(* fn were called.                                                         *)
(***************************************************************************)
NoTimerDue == \A r \in timerInfo : r.id \in timerPending => r.due > clock

\* debouncedFn(...args) called now: setTimeout(() => fn.apply(this, args), delayMs)
DebouncedFnCall(args) ==
    /\ NoTimerDue
    /\ DebouncedCall
    /\ timerInfo' = { r \in timerInfo : r.id \in timerPending' /\ r.id # nextTimer }
                       \cup { [ id |-> nextTimer, due |-> clock + delayMs, args |-> args ] }
    /\ callLog' = Append(callLog, [ at |-> clock, args |-> args ])
    /\ lastOp' = "debouncedCall"
    /\ UNCHANGED <<clock, delayMs, fnLog>>

\* The browser runs timer id, which is due: fn.apply(this, args); timerId = null
DebounceTimerRuns(id) ==
    /\ id \in timerPending
    /\ \E r \in timerInfo :
          /\ r.id = id /\ r.due <= clock
          /\ fnLog' = Append(fnLog, [ at |-> clock, args |-> r.args ])
    /\ timerPending' = timerPending \ {id}
    /\ timerInfo' = { r \in timerInfo : r.id # id }
    /\ timerId' = 0
    /\ lastOp' = "debouncedFn"
    /\ UNCHANGED <<nextTimer, clock, delayMs, callLog>>

\* A millisecond passes
TimePasses ==
    /\ NoTimerDue
    /\ clock' = clock + 1
    /\ lastOp' = "timePasses"
    /\ UNCHANGED <<timerId, timerPending, nextTimer, delayMs, timerInfo, fnLog, callLog>>

(***************************************************************************)
(* The debounce model: one debounced function, built with a short delay,   *)
(* called with either of two arguments at any millisecond.                 *)
(***************************************************************************)
Delays == { 2, 3 }

CallArgs == { "a", "b" }

InitDebounce ==
    /\ ControlsNotStarted
    /\ typingElPresent = TRUE
    /\ delayMs \in Delays
    /\ storedTheme = "none" /\ prefersDark = FALSE
    /\ storageReads = TRUE /\ storageWrites = TRUE
    /\ navPresent = TRUE
    /\ urlLang = "none" /\ storedLang = "none" /\ browserLang = "en"
    /\ lsCache = [ l \in LangCodes |-> "none" ]
    /\ prefersReducedMotion = TRUE /\ canvasPresent = TRUE /\ ctxAvailable = TRUE
    /\ innerWidth = 100 /\ innerHeight = 100
    /\ hidden = FALSE
    /\ NothingBuilt

InDebounceBounds ==
    /\ Len(callLog') <= MaxDebounceCalls
    /\ clock' <= MaxClock
    /\ UNCHANGED <<envVars, loaded, ctxRequested, created, mouseX, mouseY, canvasW, canvasH,
                   loopVars, framesFired, pointerEvents,
                   storageVars, themeVars, navVars, langVars, typingVars>>

NextDebounce ==
    \/ \E args \in CallArgs : DebouncedFnCall(args) /\ InDebounceBounds
    \/ \E id \in timerPending : DebounceTimerRuns(id) /\ InDebounceBounds
    \/ TimePasses /\ InDebounceBounds

SpecDebounce == InitDebounce /\ [][NextDebounce]_vars

(***************************************************************************)
(* Properties.                                                             *)
(***************************************************************************)
\* The loop as the design names it.
Running == created /\ isVisible /\ animationId # 0

Stopped == created /\ ~isVisible /\ animationId = 0

\* C1: at most one scheduled animation-frame callback is outstanding at any
\* time, whatever the order of page load, frame callbacks, visibility changes,
\* resizes and pointer events; a start() that finds the loop running and a
\* stop() that finds it stopped change nothing of the loop.
C1_AtMostOneCallback ==
    /\ [](Cardinality(rafPending) <= 1)
    /\ [][(lastOp' = "show" /\ Running) => UNCHANGED loopVars]_vars
    /\ [][(lastOp' = "hide" /\ Stopped) => UNCHANGED loopVars]_vars

\* A visibilitychange to visible has just called start() on a loop that the page
\* load had started and that has already run a frame callback.
C1_Witness ==
    /\ lastOp = "show"
    /\ loopStarts = 1
    /\ framesFired >= 1
    /\ Cardinality(rafPending) = 1

\* C2: once stop() has returned and until start() is called, no callback is
\* scheduled and no step changes the number of Physics Steps, of Renders or of
\* frame callbacks run: the callback pending at stop() never fires.
C2_NoFrameWhileStopped ==
    /\ []((created /\ ~isVisible) => rafPending = {})
    /\ [][(created /\ ~isVisible /\ ~isVisible')
            => UNCHANGED <<physicsSteps, renders, framesFired>>]_vars

\* The loop ran frames, was stopped, and the debounced resize has since rebuilt
\* the particles without any frame running.
C2_Witness ==
    /\ created /\ ~isVisible
    /\ framesFired >= 1
    /\ lastOp = "timer"

\* C3 as stated: after a Physics Step every particle has 0 <= x < w and
\* 0 <= y < h, for the w and h that step used.
C3_HalfOpenBox ==
    [][physicsSteps' = physicsSteps + 1
         => \A i \in DOMAIN particles' :
              /\ 0 <= particles'[i].x /\ particles'[i].x < Px(innerWidth)
              /\ 0 <= particles'[i].y /\ particles'[i].y < Px(innerHeight)]_vars

\* C3, amended: after a Physics Step every particle has 0 <= x <= w and
\* 0 <= y <= h, for the w and h that step used.
C3_ClosedBox ==
    [][physicsSteps' = physicsSteps + 1
         => \A i \in DOMAIN particles' :
              /\ 0 <= particles'[i].x /\ particles'[i].x <= Px(innerWidth)
              /\ 0 <= particles'[i].y /\ particles'[i].y <= Px(innerHeight)]_vars

\* A frame callback has just run a Physics Step that left a particle, which had
\* crossed the near edge, on the far edge itself.
C3_Witness ==
    /\ lastOp = "frame"
    /\ \E i \in DOMAIN particles :
          particles[i].x = Px(innerWidth) \/ particles[i].y = Px(innerHeight)

\* C4: every particle, fresh or after any number of Physics Steps under any
\* pointer positions, has |vx| <= 2 * baseSpeed and |vy| <= 2 * baseSpeed.
C4_SpeedBound ==
    \A i \in DOMAIN particles :
        /\ Abs(particles[i].vx) <= 2 * PARTICLE_SPEED
        /\ Abs(particles[i].vy) <= 2 * PARTICLE_SPEED

\* The pointer has pushed a particle to the damped limit, from where one more
\* impulse takes its speed past the limit before the clamp.
C4_Witness ==
    /\ mouseX # MOUSE_OFFSCREEN
    /\ \E i \in DOMAIN particles :
          \/ Abs(particles[i].vx) + MOUSE_REPEL_STRENGTH > 2 * PARTICLE_SPEED
          \/ Abs(particles[i].vy) + MOUSE_REPEL_STRENGTH > 2 * PARTICLE_SPEED

\* C5: the particle set, built at page load and rebuilt by the debounced resize,
\* has min(CAP, floor(w * h / DENSITY)) particles for the viewport it was built
\* for, which is between 0 and CAP.
C5_ParticleCount ==
    created =>
        LET n == (canvasW * canvasH) \div PIXELS_PER_PARTICLE
        IN  /\ Len(particles) = (IF n > MAX_PARTICLES THEN MAX_PARTICLES ELSE n)
            /\ 0 <= Len(particles)
            /\ Len(particles) <= MAX_PARTICLES

\* The set was built for a viewport whose area asks for more than CAP, and has
\* run a pass since.
C5_Witness ==
    /\ created
    /\ (canvasW * canvasH) \div PIXELS_PER_PARTICLE > MAX_PARTICLES
    /\ Len(particles) = MAX_PARTICLES
    /\ lastOp = "frame"

\* C6 as stated: the passes executed are as many as the frame callbacks run.
C6_PassesAreCallbacks == physicsSteps = framesFired /\ renders = framesFired

\* C6, amended: a start() that finds no callback outstanding runs one Physics
\* Step + Render itself before it schedules the first callback, and every other
\* pass is run by a frame callback: the passes executed are as many as the
\* frame callbacks run plus the Stopped -> Running transitions.
C6_PassesAreCallbacksAndStarts ==
    /\ physicsSteps = framesFired + loopStarts
    /\ renders = physicsSteps

\* The loop ran a frame callback, was stopped, and has been started again.
C6_Witness ==
    /\ loopStarts = 2
    /\ framesFired >= 1
    /\ lastOp = "show"

\* C7: once the system exists, the loop is Running, with exactly one callback
\* outstanding, exactly when the document is visible, and Stopped, with none,
\* exactly when it is hidden.
C7_RunningIffVisible ==
    created =>
        /\ (isVisible /\ Cardinality(rafPending) = 1) <=> ~hidden
        /\ (~isVisible /\ rafPending = {}) <=> hidden

\* C8: a frame callback that runs while the loop is Running performs one Physics
\* Step and one Render and leaves exactly one, new, callback scheduled; and a
\* Running loop with n passes behind it gets a further pass unless it is
\* stopped first.
C8_LoopContinues ==
    /\ [][(framesFired' = framesFired + 1 /\ Running)
            => /\ physicsSteps' = physicsSteps + 1
               /\ renders' = renders + 1
               /\ Cardinality(rafPending') = 1
               /\ rafPending' \cap rafPending = {}
               /\ Running']_vars
    /\ \A n \in 0 .. MaxPasses - 1 :
          (Running /\ physicsSteps = n) ~> (physicsSteps > n \/ ~isVisible)

\* A frame callback has just run in a loop that had already run one.
C8_Witness ==
    /\ lastOp = "frame"
    /\ framesFired >= 2
    /\ Running

\* C9: when the debounce timer fires, the particle set is replaced by a freshly
\* generated one for the viewport of that moment: min(CAP, floor(w * h /
\* DENSITY)) particles, each as createParticle makes it, none taken over.
C9_ResizeReplacesParticles ==
    [][lastOp' = "timer"
         => LET n == (innerWidth * innerHeight) \div PIXELS_PER_PARTICLE
            IN  /\ Len(particles') = (IF n > MAX_PARTICLES THEN MAX_PARTICLES ELSE n)
                /\ \E seed \in Seeds : \A i \in DOMAIN particles' :
                      particles'[i] = createParticle(seed, i - 1, innerWidth, innerHeight)]_vars

\* The timer has fired after a resize from the small to the large viewport,
\* with passes run on the old particles, and the set has the capped count.
C9_Witness ==
    /\ lastOp = "timer"
    /\ physicsSteps >= 2
    /\ canvasW = 1600 /\ canvasH = 1200
    /\ Len(particles) = MAX_PARTICLES

\* C10: with the reduced-motion preference set, no canvas context is ever asked
\* for, no frame is ever scheduled, no listener ever acts (no timer is set, the
\* pointer stays at its sentinel) and no Physics Step or Render ever runs.
C10_ReducedMotionInert ==
    prefersReducedMotion =>
        /\ ~ctxRequested /\ ~created
        /\ rafPending = {} /\ animationId = 0
        /\ timerPending = {} /\ timerId = 0
        /\ mouseX = MOUSE_OFFSCREEN /\ mouseY = MOUSE_OFFSCREEN
        /\ particles = <<>>
        /\ physicsSteps = 0 /\ renders = 0 /\ framesFired = 0

\* Reduced motion on a page that has a canvas and a context: the page has
\* loaded and the pointer has since moved over the container.
C10_Witness ==
    /\ prefersReducedMotion /\ canvasPresent /\ ctxAvailable
    /\ loaded
    /\ lastOp = "move"

\* C11: when the canvas gives no 2D context, createParticleSystem returns null
\* before anything is built: no particle, no listener that acts on a later event
\* (no timer is set, the pointer stays at its sentinel), no start() and no
\* frame, at page load and ever after.
C11_NoContextInert ==
    (loaded /\ ~ctxAvailable) =>
        /\ ~created
        /\ particles = <<>>
        /\ canvasW = 0 /\ canvasH = 0
        /\ rafPending = {} /\ animationId = 0 /\ loopStarts = 0
        /\ timerPending = {} /\ timerId = 0
        /\ mouseX = MOUSE_OFFSCREEN /\ mouseY = MOUSE_OFFSCREEN
        /\ physicsSteps = 0 /\ renders = 0 /\ framesFired = 0

\* A page with motion allowed and a canvas that gives no context: the context
\* was asked for, and a resize event has come since.
C11_Witness ==
    /\ ~prefersReducedMotion /\ canvasPresent /\ ~ctxAvailable
    /\ ctxRequested
    /\ lastOp = "resize"

\* C12: a Physics Step on a particle at a distance 0 < d < radius from the
\* pointer adds to its velocity, before the clamp and the damping, an impulse
\* of the repulsion strength (to the rounding of each component) that points
\* from the pointer to the particle; a particle at (100, 100) at rest with the
\* pointer straight below it at (100, 100 + d) ends the step with vy < 0 and
\* vx = 0.
C12_RepulsionAwayFromPointer ==
    [][lastOp' = "frame"
         => \A i \in DOMAIN particles :
              LET p  == particles[i]
                  q  == particles'[i]
                  dx == p.x - Px(mouseX)
                  dy == p.y - Px(mouseY)
                  near == /\ Abs(dx) < MOUSE_INFLUENCE_RADIUS
                          /\ Abs(dy) < MOUSE_INFLUENCE_RADIUS
                          /\ dx * dx + dy * dy > 0
                          /\ dx * dx + dy * dy < MOUSE_INFLUENCE_RADIUS * MOUSE_INFLUENCE_RADIUS
                  S  == MOUSE_REPEL_STRENGTH
              IN  near =>
                    /\ \E ix \in -S .. S, iy \in -S .. S :
                          /\ q.vx = Damp(ClampSpeed(p.vx + ix))
                          /\ q.vy = Damp(ClampSpeed(p.vy + iy))
                          /\ ix * dx >= 0 /\ iy * dy >= 0
                          /\ (dx = 0 => ix = 0) /\ (dy = 0 => iy = 0)
                          /\ (Abs(dx) >= Abs(dy) => Abs(ix) >= Abs(iy))
                          /\ (Abs(dy) >= Abs(dx) => Abs(iy) >= Abs(ix))
                          /\ (2 * S - 2) * (2 * S - 2) <= 4 * (ix * ix + iy * iy)
                          /\ 4 * (ix * ix + iy * iy) <= (2 * S + 2) * (2 * S + 2)
                    /\ (p.x = Px(100) /\ p.y = Px(100) /\ p.vx = 0 /\ p.vy = 0
                          /\ dx = 0 /\ dy < 0)
                       => (q.vy < p.vy /\ q.vy < 0 /\ q.vx = p.vx)]_vars

\* The first frame after the load has pushed the particle, at rest at
\* (100, 100) with the pointer below it, straight up.
C12_Witness ==
    /\ lastOp = "frame" /\ physicsSteps = 2
    /\ mouseX = 100 /\ mouseY > 100
    /\ particles[1].x = Px(100) /\ particles[1].y = Px(100) - MOUSE_REPEL_STRENGTH
    /\ particles[1].vx = 0 /\ particles[1].vy = -MOUSE_REPEL_STRENGTH

\* C13: a Physics Step on a particle that is exactly at the pointer gives it no
\* impulse: its velocity after the step is the damping times its clamped
\* velocity of before, a number.
C13_NoRepulsionAtPointer ==
    [][lastOp' = "frame"
         => \A i \in DOMAIN particles :
              (particles[i].x = Px(mouseX) /\ particles[i].y = Px(mouseY))
                => /\ particles'[i].vx = Damp(ClampSpeed(particles[i].vx))
                   /\ particles'[i].vy = Damp(ClampSpeed(particles[i].vy))
                   /\ particles'[i].vx \in Int /\ particles'[i].vy \in Int]_vars

\* The first frame after the load has moved a particle that was exactly at the
\* pointer, with the velocity (0.15, -0.15), on by that velocity.
C13_Witness ==
    /\ lastOp = "frame" /\ physicsSteps = 2
    /\ mouseX # MOUSE_OFFSCREEN
    /\ particles[1].vx = 15 /\ particles[1].vy = -15
    /\ particles[1].x = Px(mouseX) + 15 /\ particles[1].y = Px(mouseY) - 15

\* C14: the pointer is at the off-screen sentinel until the first mousemove and
\* again after every mouseleave, and a Physics Step run with the pointer there
\* gives no particle an impulse: every particle moves by its velocity of before
\* and keeps it, clamped and damped.
C14_SentinelRepelsNothing ==
    /\ [][(lastOp' = "leave" /\ created)
            => (mouseX' = MOUSE_OFFSCREEN /\ mouseY' = MOUSE_OFFSCREEN)]_vars
    /\ [][(lastOp' \in {"frame", "show"} /\ physicsSteps' = physicsSteps + 1
             /\ mouseX = MOUSE_OFFSCREEN /\ mouseY = MOUSE_OFFSCREEN)
            => \A i \in DOMAIN particles :
                 /\ particles'[i].vx = Damp(ClampSpeed(particles[i].vx))
                 /\ particles'[i].vy = Damp(ClampSpeed(particles[i].vy))
                 /\ particles'[i].x = Wrap(particles[i].x + particles[i].vx, Px(innerWidth))
                 /\ particles'[i].y = Wrap(particles[i].y + particles[i].vy, Px(innerHeight))]_vars

\* The pointer pushed a particle (its velocity is none that createParticle
\* gives), then left, and a frame has run since with the pointer at the sentinel.
C14_Witness ==
    /\ lastOp = "frame"
    /\ mouseX = MOUSE_OFFSCREEN /\ mouseY = MOUSE_OFFSCREEN
    /\ \E i \in DOMAIN particles :
          \A seed \in Seeds, k \in DOMAIN particles :
              particles[i].vx # createParticle(seed, k - 1, canvasW, canvasH).vx

\* C15: in a Physics Step, an axis whose coordinate, advanced by the velocity,
\* is below 0 is set to the extent, one above the extent is set to 0, and any
\* other is left as advanced; each axis on its own, and the velocity of the
\* step is what the clamp and the damping make of it, wrapped or not.
C15_WrapTouchesOneAxis ==
    [][lastOp' = "frame"
         => \A i \in DOMAIN particles :
              LET p   == particles[i]
                  q   == particles'[i]
                  vx1 == p.vx + Impulse(p.x - Px(mouseX), p.x - Px(mouseX), p.y - Px(mouseY))
                  vy1 == p.vy + Impulse(p.y - Px(mouseY), p.x - Px(mouseX), p.y - Px(mouseY))
                  ux  == p.x + vx1
                  uy  == p.y + vy1
              IN  /\ q.x = (IF ux < 0 THEN Px(innerWidth)
                            ELSE IF ux > Px(innerWidth) THEN 0 ELSE ux)
                  /\ q.y = (IF uy < 0 THEN Px(innerHeight)
                            ELSE IF uy > Px(innerHeight) THEN 0 ELSE uy)
                  /\ q.vx = Damp(ClampSpeed(vx1))
                  /\ q.vy = Damp(ClampSpeed(vy1))
                  /\ q.radius = p.radius]_vars

\* A frame has wrapped a particle that left over the left edge to the right
\* edge; its y, inside the viewport, moved on as ever, and it still flies left.
C15_Witness ==
    /\ lastOp = "frame"
    /\ particles[1].x = Px(innerWidth) /\ particles[1].vx < 0
    /\ particles[1].y > 0 /\ particles[1].y < Px(innerHeight)
    /\ particles[1].vy # 0

\* C16: a Render pass examines every unordered pair of particles exactly once,
\* and no particle with itself; it strokes one line for a pair exactly when the
\* pair's distance is below the connection threshold, with the opacity
\* factor * (1 - distance / threshold) to the nearest hundredth, which is the
\* factor at distance 0 and falls as the distance grows; and the particles
\* after a pass are those the Physics Step left.
C16_RenderPairs ==
    /\ [](LET d == draw(particles)
              n == Len(particles)
              F == LINE_OPACITY_FACTOR
              T == CONNECTION_DISTANCE
              Sq(i, j) == (particles[i].x - particles[j].x) * (particles[i].x - particles[j].x)
                        + (particles[i].y - particles[j].y) * (particles[i].y - particles[j].y)
              Close(i, j) == /\ Abs(particles[i].x - particles[j].x) < T
                             /\ Abs(particles[i].y - particles[j].y) < T
                             /\ Sq(i, j) < T * T
          IN  /\ 2 * Len(d.examined) = n * (n - 1)
              /\ \A k \in DOMAIN d.examined : d.examined[k][1] # d.examined[k][2]
              /\ \A i \in 1 .. n, j \in 1 .. n :
                    i < j =>
                      /\ Cardinality({ k \in DOMAIN d.examined :
                                         {d.examined[k][1], d.examined[k][2]} = {i, j} }) = 1
                      /\ Cardinality({ k \in DOMAIN d.lines :
                                         {d.lines[k].from, d.lines[k].to} = {i, j} })
                           = (IF Close(i, j) THEN 1 ELSE 0)
              /\ \A k \in DOMAIN d.lines :
                    LET m  == d.lines[k].opacity
                        sq == Sq(d.lines[k].from, d.lines[k].to)
                    IN  /\ 0 <= m /\ m <= F
                        /\ sq = 0 => m = F
                        \* | m - F * (1 - dist / T) | <= 1/2
                        /\ m > 0 => sq <= ((T * (2 * F + 1 - 2 * m)) \div (2 * F))
                                          * ((T * (2 * F + 1 - 2 * m)) \div (2 * F))
                        /\ m < F => sq > ((T * (2 * F - 1 - 2 * m)) \div (2 * F))
                                         * ((T * (2 * F - 1 - 2 * m)) \div (2 * F))
                        /\ \A k2 \in DOMAIN d.lines :
                              sq <= Sq(d.lines[k2].from, d.lines[k2].to)
                                => m >= d.lines[k2].opacity)
    /\ [][lastOp' = "frame" /\ renders' = renders + 1
            => particles' = UpdateParticles(particles, mouseX, mouseY,
                                            innerWidth, innerHeight)]_vars

\* A frame has rendered three particles or more, with a line of an opacity
\* strictly between none and the factor, and a pair too far apart for a line.
C16_Witness ==
    /\ lastOp = "frame"
    /\ Len(particles) >= 3
    /\ \E k \in DOMAIN draw(particles).lines :
          /\ draw(particles).lines[k].opacity > 0
          /\ draw(particles).lines[k].opacity < LINE_OPACITY_FACTOR
    /\ Len(draw(particles).lines) < Len(draw(particles).examined)

\* C17: once initTheme() has run, data-theme is 'dark' or 'light'; a click on
\* the theme toggle changes it to the other of the two, so that a second click
\* gives the first theme back; and where setItem works, the stored preference
\* is the theme applied.
C17_ThemeToggles ==
    /\ [](themeReady = "yes" =>
            /\ dataTheme \in {"dark", "light"}
            /\ storageWrites => storedTheme = dataTheme)
    /\ [][(lastOp' = "themeClick" /\ themeReady = "yes")
            => /\ dataTheme' \in {"dark", "light"} \ {dataTheme}
               /\ ({"dark", "light"} \ {dataTheme'}) = {dataTheme}]_vars

\* A click has turned the theme to light on a page that started dark from the
\* OS scheme, and the preference was stored.
C17_Witness ==
    /\ lastOp = "themeClick" /\ themeReady = "yes"
    /\ prefersDark /\ dataTheme = "light"
    /\ storageWrites /\ storedTheme = "light"

\* C18: once initI18n() has set the language, the current language and the
\* lang attribute of <html> are each 'en' or 'es', whatever toggle clicks and
\* switchLang calls follow; a switchLang with a code that is not supported
\* changes nothing; a click on the language toggle changes the lang attribute
\* to the other supported language.
C18_LangAlwaysSupported ==
    /\ [](i18nReady \in {"loading", "yes"} =>
            /\ currentLang \in {"en", "es"}
            /\ htmlLang \in {"en", "es"})
    /\ [][lastOp' = "switchLangUnsupported" => UNCHANGED langVars]_vars
    /\ [][(lastOp' = "langClick" /\ i18nReady = "yes")
            => htmlLang' \in {"en", "es"} \ {htmlLang}]_vars

\* A page that the URL parameter started in Spanish has been switched to
\* English by a click on the toggle, after a switchLang call was made.
C18_Witness ==
    /\ lastOp = "langClick" /\ i18nReady = "yes"
    /\ urlLang = "es" /\ htmlLang = "en" /\ currentLang = "en"
    /\ nextCall >= 4

\* C19: the link list has the class nav__links--open exactly when aria-expanded
\* is 'true'; a click on the toggle of a closed menu opens it; a click on a nav
\* link and an Escape leave it closed.
C19_NavOpenIffExpanded ==
    /\ [](linksOpen <=> ariaExpanded = "true")
    /\ [][(lastOp' = "navToggle" /\ navReady /\ ~linksOpen)
            => (linksOpen' /\ ariaExpanded' = "true")]_vars
    /\ [][lastOp' \in {"navLink", "escape"}
            => (~linksOpen' /\ ariaExpanded' = "false")]_vars

\* A click on the toggle has just opened the menu.
C19_Witness ==
    /\ navReady /\ lastOp = "navToggle"
    /\ linksOpen /\ ariaExpanded = "true"

\* C20: as long as no fetch has failed, the JSON of each language has been
\* fetched at most once in the page session.
C20_FetchedAtMostOnce ==
    ~fetchFailed => \A l \in SUPPORTED_LANGS : fetchCount[l] <= 1

\* C28: whether or not localStorage can be read and written, initTheme() runs
\* through without an exception, and after it and after every click on the
\* toggle data-theme is 'dark' or 'light'.
C28_ThemeDespiteStorage ==
    /\ themeReady # "threw"
    /\ themeReady # "no" => dataTheme \in {"dark", "light"}
    /\ (lastOp = "themeClick" /\ themeReady # "no") => dataTheme \in {"dark", "light"}

\* C22: the language initI18n() starts with is the URL parameter if that is
\* supported, else the stored language if that is supported, else the browser
\* language if that is supported, else 'en'; it is always 'en' or 'es'.
C22_InitialLangPriority ==
    [][(lastOp' = "initI18n" /\ i18nReady' # "threw")
         => LET ok(l) == l = "en" \/ l = "es"
            IN  /\ ok(currentLang')
                /\ htmlLang' = currentLang'
                /\ ok(urlLang) => currentLang' = urlLang
                /\ (~ok(urlLang) /\ ok(storedLang)) => currentLang' = storedLang
                /\ (~ok(urlLang) /\ ~ok(storedLang) /\ ok(browserLang))
                      => currentLang' = browserLang
                /\ (~ok(urlLang) /\ ~ok(storedLang) /\ ~ok(browserLang))
                      => currentLang' = "en"]_vars

\* initI18n() has passed over a URL parameter that is not supported and has
\* taken the stored Spanish, not the browser's English.
C22_Witness ==
    /\ lastOp = "initI18n"
    /\ urlLang = "fr" /\ storedLang = "es" /\ browserLang = "en"
    /\ currentLang = "es" /\ htmlLang = "es"

\* C24: loadTranslations() always returns. When the fetch of 'es' fails, it
\* returns what loading 'en' returns: the cached English at once, or the
\* outcome of a fetch of en.json. When the fetch of 'en' fails it returns the
\* empty object. Every answer that arrives settles the call or moves it on to
\* the fetch of en.json. A localStorage entry that does not parse is removed
\* (where removeItem works) and the language is fetched.
C24_LoadFallbacks ==
    /\ [][\A call \in pendingCalls : FetchCompletes(call, FALSE) =>
             LET enInMemory  == "en" \in translationCache
                 enInStorage == storageReads /\ lsCache["en"] = "valid"
             IN  IF call.file = "en"
                 THEN /\ applied' = "empty"
                      /\ pendingCalls' = pendingCalls \ {call}
                      /\ fetchCount' = fetchCount
                 ELSE IF enInMemory \/ enInStorage
                 THEN /\ applied' = "en"
                      /\ pendingCalls' = pendingCalls \ {call}
                      /\ fetchCount' = fetchCount
                 ELSE /\ applied' = applied
                      /\ fetchCount'["en"] = fetchCount["en"] + 1
                      /\ \E c \in pendingCalls' :
                            /\ c.id = call.id /\ c.lang = call.lang /\ c.file = "en"
                            /\ pendingCalls' = (pendingCalls \ {call}) \cup {c}]_vars
    /\ [][\A call \in pendingCalls : FetchCompletes(call, TRUE) =>
             /\ applied' = call.file
             /\ call.file \in {call.lang, "en"}
             /\ pendingCalls' = pendingCalls \ {call}]_vars
    /\ [][(lastOp' \in {"initI18n", "langClick", "switchLang"}
             /\ nextCall' # nextCall
             /\ currentLang' \notin translationCache
             /\ storageReads /\ lsCache[currentLang'] = "corrupt")
            => /\ fetchCount'[currentLang'] = fetchCount[currentLang'] + 1
               /\ \E c \in pendingCalls' \ pendingCalls : c.file = currentLang'
               /\ storageWrites => lsCache'[currentLang'] = "none"]_vars

\* The page started in Spanish, the fetch of es.json has failed, en.json has
\* been fetched in its place and the English texts are on the page.
C24_Witness ==
    /\ lastOp = "fetchDone" /\ fetchFailed
    /\ nextCall = 2 /\ pendingCalls = {}
    /\ currentLang = "es" /\ applied = "en"
    /\ fetchCount["es"] = 1 /\ fetchCount["en"] = 1

\* C25: a Physics Step moves each particle by its velocity after the impulse,
\* not yet clamped (seen wherever the move stays inside the viewport); the
\* velocity it stores is the damping, to the nearest unit, of that velocity
\* clamped to +-2 * baseSpeed, so each component's magnitude is then at most
\* damping * 2 * baseSpeed.
C25_StepOrder ==
    [][lastOp' = "frame"
         => \A i \in DOMAIN particles :
              LET p    == particles[i]
                  q    == particles'[i]
                  L    == 2 * PARTICLE_SPEED
                  dx   == p.x - Px(mouseX)
                  dy   == p.y - Px(mouseY)
                  vx1  == p.vx + Impulse(dx, dx, dy)
                  vy1  == p.vy + Impulse(dy, dx, dy)
                  cl(v) == IF v > L THEN L ELSE IF v < -L THEN -L ELSE v
                  inside(c, extent) == 0 <= c /\ c <= extent
              IN  /\ inside(p.x + vx1, Px(innerWidth)) => q.x - p.x = vx1
                  /\ inside(p.y + vy1, Px(innerHeight)) => q.y - p.y = vy1
                  /\ 2 * Abs(100 * q.vx - VELOCITY_DAMPING * cl(vx1)) <= 100
                  /\ 2 * Abs(100 * q.vy - VELOCITY_DAMPING * cl(vy1)) <= 100
                  /\ 100 * Abs(q.vx) <= VELOCITY_DAMPING * L
                  /\ 100 * Abs(q.vy) <= VELOCITY_DAMPING * L]_vars

\* With the pointer on the canvas, a frame has left a particle at the damped
\* limit: the next impulse of the full strength takes it past the limit before
\* the clamp.
C25_Witness ==
    /\ lastOp = "frame" /\ mouseX # MOUSE_OFFSCREEN
    /\ \E i \in DOMAIN particles :
          \/ Abs(particles[i].vx) = Damp(2 * PARTICLE_SPEED)
          \/ Abs(particles[i].vy) = Damp(2 * PARTICLE_SPEED)

\* The positions a phrase can have in a list of the typing model
PhrasePositions ==
    DOMAIN DEFAULT_PHRASES \cup UNION { DOMAIN typing.items : typing \in TranslatedTyping }

\* The running animation is at phrase k, has typed it to its full length and
\* shows it; true as well when no animation runs or its list has no phrase k
PhraseShown(k) ==
    \A t \in typingTimers :
        k \in DOMAIN t.closure.phrases =>
            /\ t.closure.phraseIndex + 1 = k
            /\ t.closure.isDeleting
            /\ t.closure.charIndex = t.closure.phrases[k].len
            /\ typingText = substring(t.closure.phrases[k], t.closure.phrases[k].len)

\* C21: while the typing animation runs, the text shown is a prefix of the
\* current phrase, a tick adds or removes exactly one character of it, a
\* phrase is deleted only from its full length and the next one (the first
\* after the last) started only from the empty string; and every phrase of
\* the list is shown in full again and again.
C21_PhrasesCycle ==
    /\ [](\A t \in typingTimers :
            LET c == t.closure
            IN  /\ typingText = substring(c.phrases[c.phraseIndex + 1], c.charIndex)
                /\ typingText.len <= c.phrases[c.phraseIndex + 1].len)
    /\ [][lastOp' = "typingTick" =>
            \A t \in typingTimers : \A u \in typingTimers' :
                /\ Abs(typingText'.len - typingText.len) = 1
                /\ u.closure.phraseIndex # t.closure.phraseIndex =>
                      /\ typingText' = EmptyString
                      /\ u.closure.phraseIndex = (t.closure.phraseIndex + 1) % Len(t.closure.phrases)]_vars
    /\ \A k \in PhrasePositions : []<>PhraseShown(k)

C27_OneTypingTimer ==
    /\ [](Cardinality(typingTimers) <= 1)
    /\ [](\A t \in typingTimers : t.id = typingTimeoutId /\ t.call = typingStarts)
    /\ [][lastOp' = "typingTick" => typingWriter' = typingStarts]_vars

\* The animation has been started a second time (by init after the callback
\* of initI18n's switchLang, or by a language change) while a timer of the
\* first was pending, and a timer has run since.
C27_Witness ==
    /\ typingElPresent /\ ~prefersReducedMotion
    /\ typingStarts >= 2 /\ homeReady
    /\ lastOp = "typingTick"
    /\ typingTimers # {}

\* C23: when no switchLang call is waiting any more, and no fetch has failed,
\* the translations on the page are those of the current language, which is
\* also the language of the lang attribute and of the toggle's label.
C23_AppliedIsCurrent ==
    (i18nReady = "yes" /\ pendingCalls = {} /\ ~fetchFailed) =>
        /\ applied = currentLang
        /\ htmlLang = currentLang
        /\ toggleLabel = currentLang

====
